---- MODULE Spec2Model ----
(***************************************************************************)
(* Model of the shared layer of the Atlassian skills scripts:              *)
(*   scripts/_common.py        configuration, HTTP client, error classes,  *)
(*                             response formatting                         *)
(*   scripts/jira_users.py     jira_get_user_profile                       *)
(*   scripts/confluence_users.py  confluence_search_users                  *)
(*                                                                         *)
(* Eight specifications share the variables:                                *)
(*   Spec        invocations of the two tool functions, one HTTP exchange  *)
(*               per step                                                  *)
(*   SpecConfig  AtlassianConfig.from_env and the get_*_client helpers     *)
(*   SpecCtor    AtlassianConfig built directly from its arguments         *)
(*   SpecHttp    the client's get / post / put / delete on one response,   *)
(*               and api_path                                              *)
(*   SpecParse   parse_time_spent on one string                            *)
(*   SpecIssue   simplify_issue on one vendor issue                        *)
(*   SpecConc    two invocations of the tool functions, interleaved        *)
(*   SpecCreds   check_available_skills on one credentials bundle          *)
(***************************************************************************)
EXTENDS Integers, Sequences, FiniteSets, TLC

VARIABLES
    env,        \* os.environ, per prefix: the {PREFIX}_* variables
    pc,         \* position of the running call
    tool,       \* the function being executed
    arg,        \* its arguments
    config,     \* the AtlassianConfig / AtlassianClient built by the call
    calls,      \* HTTP requests issued by the call so far, in order
    log,        \* what client.get gave back for each of them, in order
    user_data,  \* local variable user_data of jira_get_user_profile
    result,     \* what the call returned (or the exception that escaped)
    suspended   \* the frame of the invocation that is not running, when two
                \* invocations are interleaved

vars == <<env, pc, tool, arg, config, calls, log, user_data, result, suspended>>

----------------------------------------------------------------------------
(* Bounds *)

MaxUrlLen == 3          \* longest URL, in symbols
MaxEndpointLen == 3     \* longest endpoint given to api_path, in symbols
MaxTimeLen == 4         \* longest time_spent string, in symbols

----------------------------------------------------------------------------
(* Python values *)

\* Optional[str]: None or a string
None == [some |-> FALSE]
Some(s) == [some |-> TRUE, v |-> s]

\* bool(x) of an Optional[str]
Truthy(o) == o.some /\ o.v # ""

\* a call either returns a value or raises an exception
Ok(v) == [ok |-> TRUE, val |-> v]
Exc(kind, msg) == [kind |-> kind, msg |-> msg]
Raise(kind, msg) == [ok |-> FALSE, exc |-> Exc(kind, msg)]

\* the six typed errors of _common.py
TypedErrors ==
    {"ConfigurationError", "AuthenticationError", "ValidationError",
     "NotFoundError", "APIError", "NetworkError"}

Nothing == [t |-> "nothing"]

----------------------------------------------------------------------------
(* URLs: strings over a small alphabet.  "N" stands for the substring      *)
(* atlassian.net, "M" for the same substring in upper case, "h" for any    *)
(* other character.                                                        *)

UrlChars == {"h", "/", "N", "M"}

UrlsUpTo(n) == UNION {[1..k -> UrlChars] : k \in 0..n}

\* str.lower()
LowerChar(c) == IF c = "M" THEN "N" ELSE IF c = "H" THEN "h" ELSE c
Lower(s) == [i \in 1..Len(s) |-> LowerChar(s[i])]

\* str.rstrip('/'): drops every trailing '/'
RECURSIVE rstrip(_)
rstrip(s) ==
    IF s # <<>> /\ s[Len(s)] = "/" THEN rstrip(SubSeq(s, 1, Len(s) - 1)) ELSE s

\* 'atlassian.net' in s
ContainsAtlassianNet(s) == \E i \in 1..Len(s) : s[i] = "N"

----------------------------------------------------------------------------
(* AtlassianConfig *)

Prefixes == {"JIRA", "CONFLUENCE", "BITBUCKET"}

Tokens == {None, Some(""), Some("t")}
Versions == {None, Some(""), Some("2"), Some("3"), Some("latest")}

\* the auth_type chosen by __init__
AuthTypeBasicFirst(username, api_token, pat_token) ==
    IF Truthy(username) /\ Truthy(api_token) THEN "basic"
    ELSE IF Truthy(pat_token) THEN "pat"
    ELSE "unknown"

AuthType(username, api_token, pat_token) ==
    IF Truthy(pat_token) THEN "pat"
    ELSE IF Truthy(username) /\ Truthy(api_token) THEN "basic"
    ELSE "unknown"

\* AtlassianConfig.__init__ (ssl_verify, which no claim reads, is left out)
AtlassianConfigStripOne(url, username, api_token, pat_token, api_version) ==
    [t           |-> "config",
     url         |-> IF url # <<>> /\ url[Len(url)] = "/"
                     THEN SubSeq(url, 1, Len(url) - 1) ELSE url,
     username    |-> username,
     api_token   |-> api_token,
     pat_token   |-> pat_token,
     api_version |-> api_version,
     auth_type   |-> AuthType(username, api_token, pat_token)]

AtlassianConfig(url, username, api_token, pat_token, api_version) ==
    [t           |-> "config",
     url         |-> IF url # <<>> THEN rstrip(url) ELSE <<>>,
     username    |-> username,
     api_token   |-> api_token,
     pat_token   |-> pat_token,
     api_version |-> api_version,
     auth_type   |-> AuthType(username, api_token, pat_token)]

\* AtlassianConfig._validate
validateNoAuthCheck(cfg, prefix) ==
    IF cfg.url = <<>>
    THEN Raise("ConfigurationError", <<"Missing required configuration: ", prefix, "_URL">>)
    ELSE Ok(Nothing)

validate(cfg, prefix) ==
    IF cfg.url = <<>>
    THEN Raise("ConfigurationError", <<"Missing required configuration: ", prefix, "_URL">>)
    ELSE LET has_pat == Truthy(cfg.pat_token)
             has_basic == Truthy(cfg.username) /\ Truthy(cfg.api_token)
         IN IF ~has_pat /\ ~has_basic
            THEN Raise("ConfigurationError",
                       <<"Missing authentication credentials for ", prefix>>)
            ELSE Ok(Nothing)

\* AtlassianConfig.from_env
from_env(e, prefix) ==
    LET url == e[prefix].URL
        cfg == AtlassianConfig(IF url.some THEN url.v ELSE <<>>,
                               e[prefix].USERNAME, e[prefix].API_TOKEN,
                               e[prefix].PAT_TOKEN, e[prefix].API_VERSION)
        v == validate(cfg, prefix)
    IN IF v.ok THEN Ok(cfg) ELSE v

\* AtlassianConfig.get_auth_header
get_auth_header(cfg) ==
    IF cfg.auth_type = "pat" THEN Ok(<<"Bearer ", cfg.pat_token.v>>)
    ELSE IF cfg.auth_type = "basic"
         THEN Ok(<<"Basic ", cfg.username.v, ":", cfg.api_token.v>>)
         ELSE Raise("ConfigurationError",
                    <<"Cannot generate auth header: unknown auth type.">>)

\* AtlassianConfig.is_cloud
is_cloud(cfg) ==
    IF cfg.url # <<>> THEN ContainsAtlassianNet(Lower(cfg.url)) ELSE FALSE

\* AtlassianConfig.detect_api_version
detect_api_version_cloud_first(cfg) ==
    IF is_cloud(cfg) THEN "3"
    ELSE IF Truthy(cfg.api_version) THEN cfg.api_version.v
    ELSE "2"

detect_api_version(cfg) ==
    IF Truthy(cfg.api_version) THEN cfg.api_version.v
    ELSE IF is_cloud(cfg) THEN "3"
    ELSE "2"

\* AtlassianClient.__init__: the session carries the credentials
AtlassianClient(cfg) ==
    [t           |-> "client",
     config      |-> cfg,
     api_version |-> detect_api_version(cfg),
     auth        |-> IF cfg.auth_type = "pat" THEN "bearer"
                     ELSE IF cfg.auth_type = "basic" THEN "basic"
                     ELSE "none"]

\* get_jira_client / get_confluence_client / get_bitbucket_client
get_client(e, prefix) ==
    LET c == from_env(e, prefix)
    IN IF c.ok THEN Ok(AtlassianClient(c.val)) ELSE c

get_jira_client(e) == get_client(e, "JIRA")
get_confluence_client(e) == get_client(e, "CONFLUENCE")
get_bitbucket_client(e) == get_client(e, "BITBUCKET")

----------------------------------------------------------------------------
(* The environment *)

UnsetEnv ==
    [URL |-> None, USERNAME |-> None, API_TOKEN |-> None,
     PAT_TOKEN |-> None, API_VERSION |-> None]

EnvRecs(n, versions) ==
    [URL : {None} \cup {Some(u) : u \in UrlsUpTo(n)},
     USERNAME : Tokens, API_TOKEN : Tokens, PAT_TOKEN : Tokens,
     API_VERSION : versions]

\* one service is configured (well or badly), the others are not set
Envs(n, versions) ==
    {[q \in Prefixes |-> IF q = p THEN r ELSE UnsetEnv] :
        p \in Prefixes, r \in EnvRecs(n, versions)}

----------------------------------------------------------------------------
(* SpecConfig: configurations and clients *)

NoEnv == [q \in Prefixes |-> UnsetEnv]

Blank ==
    /\ pc = "idle"
    /\ tool = "none"
    /\ arg = Nothing
    /\ config = Nothing
    /\ calls = <<>>
    /\ log = <<>>
    /\ user_data = Nothing
    /\ result = Nothing
    /\ suspended = Nothing

InitConfig ==
    /\ env \in Envs(MaxUrlLen, Versions)
    /\ Blank

\* nothing is set in the environment; configurations are built from arguments
InitCtor ==
    /\ env = NoEnv
    /\ Blank

\* AtlassianConfig(url, username, api_token, pat_token, api_version)
Construct ==
    /\ pc = "idle"
    /\ \E url \in UrlsUpTo(MaxUrlLen), u \in Tokens, a \in Tokens, p \in Tokens,
          v \in Versions :
          /\ config' = AtlassianConfig(url, u, a, p, v)
          /\ arg' = [url |-> url]
    /\ pc' = "constructed"
    /\ tool' = "AtlassianConfig"
    /\ result' = Ok(Nothing)
    /\ UNCHANGED <<env, suspended, calls, log, user_data>>

\* AtlassianConfig.from_env(prefix)
FromEnv ==
    /\ pc = "idle"
    /\ \E prefix \in Prefixes :
          LET r == from_env(env, prefix)
          IN /\ arg' = [prefix |-> prefix]
             /\ result' = IF r.ok THEN Ok(Nothing) ELSE r
             /\ config' = IF r.ok THEN r.val ELSE Nothing
    /\ pc' = "constructed"
    /\ tool' = "from_env"
    /\ UNCHANGED <<env, suspended, calls, log, user_data>>

\* get_jira_client() / get_confluence_client() / get_bitbucket_client()
GetClient ==
    /\ pc = "idle"
    /\ \E prefix \in Prefixes :
          LET r == get_client(env, prefix)
          IN /\ arg' = [prefix |-> prefix]
             /\ result' = IF r.ok THEN Ok(Nothing) ELSE r
             /\ config' = IF r.ok THEN r.val ELSE Nothing
    /\ pc' = "constructed"
    /\ tool' = "get_client"
    /\ UNCHANGED <<env, suspended, calls, log, user_data>>

\* the methods of a configuration: none of them assigns a field
UseConfig ==
    /\ pc \in {"constructed", "used"}
    /\ config # Nothing
    /\ config.t = "config"
    /\ \E m \in {"get_auth_header", "is_cloud", "detect_api_version"} :
          /\ tool' = m
          /\ result' = CASE m = "get_auth_header" -> get_auth_header(config)
                         [] m = "is_cloud" -> Ok([b |-> is_cloud(config)])
                         [] OTHER -> Ok([s |-> detect_api_version(config)])
    /\ pc' = "used"
    /\ UNCHANGED <<env, suspended, arg, config, calls, log, user_data>>

\* the object is dropped
Discard ==
    /\ pc \in {"constructed", "used"}
    /\ pc' = "idle"
    /\ tool' = "none"
    /\ arg' = Nothing
    /\ config' = Nothing
    /\ result' = Nothing
    /\ calls' = <<>>
    /\ UNCHANGED <<env, suspended, log, user_data>>

NextConfig == FromEnv \/ GetClient \/ UseConfig \/ Discard

SpecConfig == InitConfig /\ [][NextConfig]_vars

\* AtlassianConfig(url=config.url, ...): a second config built from the URL
\* the first one stored
Reconstruct ==
    /\ pc = "constructed"
    /\ tool = "AtlassianConfig"
    /\ arg' = [url |-> config.url, first |-> arg.url]
    /\ config' = AtlassianConfig(config.url, config.username, config.api_token,
                                 config.pat_token, config.api_version)
    /\ pc' = "reconstructed"
    /\ UNCHANGED <<env, suspended, tool, result, calls, log, user_data>>

NextCtor == Construct \/ UseConfig \/ Discard \/ Reconstruct

SpecCtor == InitCtor /\ [][NextCtor]_vars

----------------------------------------------------------------------------
(* JSON values, as response.json() returns them *)

JObj(f) == [t |-> "obj", f |-> f]
JList(items) == [t |-> "list", items |-> items]
JStr(s) == [t |-> "str", s |-> s]
JNum(n) == [t |-> "num", n |-> n]
JBool(b) == [t |-> "bool", b |-> b]
JNull == [t |-> "null"]

EmptyObj == JObj([k \in {} |-> JNull])

\* bool(x)
PyTruthy(j) ==
    CASE j.t = "obj" -> DOMAIN j.f # {}
      [] j.t = "list" -> j.items # <<>>
      [] j.t = "str" -> j.s # ""
      [] j.t = "num" -> j.n # 0
      [] j.t = "bool" -> j.b
      [] OTHER -> FALSE

\* x.get(key, default)
PyGet(j, key, default) ==
    IF j.t # "obj" THEN Raise("AttributeError", <<"object has no attribute 'get'">>)
    ELSE IF key \in DOMAIN j.f THEN Ok(j.f[key]) ELSE Ok(default)

\* len(x)
PyLen(j) ==
    CASE j.t = "obj" -> Ok(Cardinality(DOMAIN j.f))
      [] j.t = "list" -> Ok(Len(j.items))
      [] j.t = "str" -> Ok(Len(j.s))
      [] OTHER -> Raise("TypeError", <<"object has no len()">>)

\* x[0]; a character of a string is written "c"
PyFirst(j) ==
    CASE j.t = "list" -> IF j.items # <<>> THEN Ok(j.items[1])
                         ELSE Raise("IndexError", <<"list index out of range">>)
      [] j.t = "str" -> IF j.s # "" THEN Ok(JStr("c"))
                        ELSE Raise("IndexError", <<"string index out of range">>)
      [] j.t = "obj" -> Raise("KeyError", <<"0">>)
      [] OTHER -> Raise("TypeError", <<"object is not subscriptable">>)

\* str(x) inside an f-string
PyStr(j) == IF j.t = "str" THEN j.s ELSE "repr"

----------------------------------------------------------------------------
(* HTTP responses *)

NotJson == [t |-> "notjson"]

\* what the server sent: the raw text and, when the text is JSON, its value
Body(text, json) == [text |-> text, json |-> json]

Response(status, body) ==
    [t |-> "response", status_code |-> status, text |-> body.text,
     json |-> body.json, reason |-> "Reason"]

\* requests raises instead of giving a response
Transport(exc) == [t |-> "transport", exc |-> exc]

TransportFailures == {"Timeout", "ConnectionError", "RequestException"}

OkStatuses == {200, 302}
ErrorStatuses == {400, 401, 403, 404, 429, 500}

Fields1(k, v) == [x \in {k} |-> v]
Fields2(k1, v1, k2, v2) == [x \in {k1, k2} |-> IF x = k1 THEN v1 ELSE v2]

EmptyBody == Body("", NotJson)
TextBody == Body("oops", NotJson)

ErrorBodies ==
    {EmptyBody, TextBody,
     Body("b1", JObj(Fields1("errorMessages", JList(<<JStr("em")>>)))),
     Body("b2", JObj(Fields1("errorMessages", JList(<<>>)))),
     Body("b3", JObj(Fields1("errorMessages", JStr("em")))),
     Body("b4", JObj(Fields2("errorMessages", JList(<<JStr("")>>), "message", JStr("msg")))),
     Body("b5", JObj(Fields2("errorMessages", JList(<<JStr("em")>>), "message", JStr("msg")))),
     Body("b6", JObj(Fields1("message", JStr("msg")))),
     Body("b7", JObj(Fields1("error", JStr("err")))),
     Body("b8", JObj(Fields2("message", JStr(""), "error", JStr("err")))),
     Body("b9", JObj(Fields2("message", JStr("msg"), "error", JStr("err")))),
     Body("b10", JObj(Fields1("errors", JStr("x")))),
     Body("b11", EmptyObj),
     Body("b12", JList(<<JStr("em")>>))}

\* the message _handle_error takes from the body of an error response
ErrorMessage(resp) ==
    IF resp.json = NotJson THEN (IF resp.text # "" THEN resp.text ELSE resp.reason)
    ELSE IF resp.json.t # "obj" THEN ""
    ELSE LET d == resp.json
         IN IF "errorMessages" \in DOMAIN d.f
            THEN LET first == PyFirst(d.f["errorMessages"])
                 IN IF first.ok THEN PyStr(first.val)
                    ELSE (IF resp.text # "" THEN resp.text ELSE resp.reason)
            ELSE LET m == PyGet(d, "message", JStr("")).val
                     e == PyGet(d, "error", JStr("")).val
                 IN PyStr(IF PyTruthy(m) THEN m ELSE e)

\* AtlassianClient._handle_error
handle_error_403_as_api(resp) ==
    IF resp.status_code < 400 THEN Ok(Nothing)
    ELSE LET m == ErrorMessage(resp)
         IN CASE resp.status_code = 401 -> Raise("AuthenticationError", <<"Authentication failed: ", m>>)
              [] resp.status_code = 400 -> Raise("ValidationError", <<"Invalid request: ", m>>)
              [] resp.status_code = 404 -> Raise("NotFoundError", <<"Resource not found: ", m>>)
              [] OTHER -> Raise("APIError", <<"API error (", ToString(resp.status_code), "): ", m>>)

handle_error(resp) ==
    IF resp.status_code < 400 THEN Ok(Nothing)
    ELSE LET m == ErrorMessage(resp)
         IN CASE resp.status_code = 401 -> Raise("AuthenticationError", <<"Authentication failed: ", m>>)
              [] resp.status_code = 400 -> Raise("ValidationError", <<"Invalid request: ", m>>)
              [] resp.status_code = 404 -> Raise("NotFoundError", <<"Resource not found: ", m>>)
              [] resp.status_code = 403 -> Raise("AuthenticationError", <<"Access forbidden: ", m>>)
              [] OTHER -> Raise("APIError", <<"API error (", ToString(resp.status_code), "): ", m>>)

\* the except clauses of get / post / put / delete
TransportErrorTimeoutEscapes(exc) ==
    CASE exc = "Timeout" -> Raise("Timeout", <<"Request timed out">>)
      [] exc = "ConnectionError" -> Raise("NetworkError", <<"Connection failed: ", exc>>)
      [] OTHER -> Raise("NetworkError", <<"Network error: ", exc>>)

TransportError(exc) ==
    CASE exc = "Timeout" -> Raise("NetworkError", <<"Request timed out">>)
      [] exc = "ConnectionError" -> Raise("NetworkError", <<"Connection failed: ", exc>>)
      [] OTHER -> Raise("NetworkError", <<"Network error: ", exc>>)

\* AtlassianClient.get / post / put / delete on what the session gave back:
\* the set of results the call can have.  response.json() on a body that is
\* not JSON raises requests' JSONDecodeError, a RequestException, in
\* requests >= 2.27 and a plain ValueError before that.
request_always_json(method, o) ==
    IF o.t = "transport" THEN {TransportError(o.exc)}
    ELSE LET h == handle_error(o)
         IN IF ~h.ok THEN {h}
            ELSE IF method = "delete" THEN {Ok(JBool(TRUE))}
            ELSE IF o.json = NotJson
                 THEN {TransportError("JSONDecodeError"),
                       Raise("ValueError", <<"Expecting value">>)}
                 ELSE {Ok(o.json)}

request(method, o) ==
    IF o.t = "transport" THEN {TransportError(o.exc)}
    ELSE LET h == handle_error(o)
         IN IF ~h.ok THEN {h}
            ELSE IF method = "delete" THEN {Ok(JBool(TRUE))}
            ELSE IF o.text = "" THEN {Ok(EmptyObj)}
            ELSE IF o.json = NotJson
                 THEN {TransportError("JSONDecodeError"),
                       Raise("ValueError", <<"Expecting value">>)}
                 ELSE {Ok(o.json)}

\* the URL the session is asked for
RequestUrl(client, path) == client.config.url \o path

Req(method, url, params) == [method |-> method, url |-> url, params |-> params]

NoParams == [none |-> TRUE]

----------------------------------------------------------------------------
(* Response formatting and the except clauses of the tool functions *)

\* json.dumps(data): the text whose parse is data
json_dumps(data) == [t |-> "json_text", doc |-> data]
\* json.loads(text)
json_loads(text) == text.doc

format_json_response(data) == json_dumps(data)

format_error_response(error_type, message) ==
    json_dumps([success |-> FALSE, error |-> message, error_type |-> error_type])

\* how a call of a tool function ends
Returned(text) == [t |-> "returned", text |-> text]
Escaped(exc) == [t |-> "raised", exc |-> exc]

\* the except clauses that name an error class, per tool function
Handlers(t) ==
    IF t = "jira_get_user_profile"
    THEN {"ConfigurationError", "AuthenticationError", "ValidationError",
          "NotFoundError", "APIError", "NetworkError"}
    ELSE {"ConfigurationError", "AuthenticationError", "ValidationError",
          "APIError", "NetworkError"}

\* the except chain at the end of a tool function
ToolCatchNoCatchAll(t, exc) ==
    IF exc.kind \in Handlers(t)
    THEN Returned(format_error_response(exc.kind, exc.msg))
    ELSE Escaped(exc)

ToolCatch(t, exc) ==
    IF exc.kind \in Handlers(t)
    THEN Returned(format_error_response(exc.kind, exc.msg))
    ELSE Returned(format_error_response("UnexpectedError",
                                        <<"Unexpected error: ">> \o exc.msg))

----------------------------------------------------------------------------
(* AtlassianClient.api_path *)

\* str.lstrip('/'): drops every leading '/'
RECURSIVE lstrip(_)
lstrip(s) == IF s # <<>> /\ s[1] = "/" THEN lstrip(Tail(s)) ELSE s

api_path_no_strip(client, endpoint) ==
    <<"/rest/api/", client.api_version, "/">> \o endpoint

api_path(client, endpoint) ==
    <<"/rest/api/", client.api_version, "/">> \o lstrip(endpoint)

----------------------------------------------------------------------------
(* jira_users.py *)

JiraUserKeys ==
    {"account_id", "display_name", "email", "active", "account_type",
     "timezone", "locale"}

VendorKey(k) ==
    CASE k = "account_id" -> "accountId"
      [] k = "display_name" -> "displayName"
      [] k = "email" -> "emailAddress"
      [] k = "active" -> "active"
      [] k = "account_type" -> "accountType"
      [] k = "timezone" -> "timeZone"
      [] OTHER -> "locale"

\* _simplify_user of jira_users.py
jira_simplify_user_present_only(user_data_) ==
    IF user_data_.t # "obj"
    THEN Raise("AttributeError", <<"object has no attribute 'get'">>)
    ELSE Ok(JObj([k \in {x \in JiraUserKeys : VendorKey(x) \in DOMAIN user_data_.f} |->
                    user_data_.f[VendorKey(k)]]))

jira_simplify_user(user_data_) ==
    IF user_data_.t # "obj"
    THEN Raise("AttributeError", <<"object has no attribute 'get'">>)
    ELSE Ok(JObj([k \in JiraUserKeys |->
                    PyGet(user_data_, VendorKey(k),
                          IF k = "active" THEN JBool(FALSE) ELSE JStr("")).val]))

\* the parameters of the direct lookup (method 1)
DirectParams(client, identifier) == [accountId |-> JStr(identifier)]

DirectLookup(client, identifier) ==
    Req("get", RequestUrl(client, api_path(client, <<"user">>)),
        DirectParams(client, identifier))

SearchRequest(client, identifier) ==
    Req("get", RequestUrl(client, api_path(client, <<"user", "/", "search">>)),
        [query |-> JStr(identifier), maxResults |-> 1])

PickerRequest(client, identifier) ==
    Req("get", RequestUrl(client, api_path(client, <<"user", "/", "picker">>)),
        [query |-> JStr(identifier), maxResults |-> 1])

FollowUpLookupAsQuery(client, account_id) ==
    Req("get", RequestUrl(client, api_path(client, <<"user">>)),
        [query |-> account_id, maxResults |-> 1])

FollowUpLookup(client, account_id) ==
    Req("get", RequestUrl(client, api_path(client, <<"user">>)),
        [accountId |-> account_id])

\* except (NotFoundError, APIError): pass
SwallowedEveryError(r) == ~r.ok

Swallowed(r) == ~r.ok /\ r.exc.kind \in {"NotFoundError", "APIError"}

\* the message of the NotFoundError raised when every method gave nothing
NotFoundMessageNoId(identifier) == <<"User not found">>

NotFoundMessage(identifier) == <<"User not found: ", identifier>>

\* "if not user_data:" before method 2
NeedsSearchAlways(ud) == TRUE

NeedsSearch(ud) == ~PyTruthy(ud)

\* "if not user_data:" before method 3
NeedsPickerAlways(ud) == TRUE

NeedsPicker(ud) == ~PyTruthy(ud)

\* method 2, on the response of the search: the new user_data
SearchPick(ud, response) ==
    IF ~PyTruthy(response) THEN Ok(ud)
    ELSE LET n == PyLen(response)
         IN IF ~n.ok THEN n
            ELSE IF n.val > 0 THEN PyFirst(response) ELSE Ok(ud)

\* method 3, on the response of the picker: the accountId to look up, or
\* JNull when there is no candidate
PickerPick(response) ==
    LET users == PyGet(response, "users", JList(<<>>))
    IN IF ~users.ok THEN users
       ELSE IF ~PyTruthy(users.val) THEN Ok(JNull)
       ELSE LET first == PyFirst(users.val)
            IN IF ~first.ok THEN first
               ELSE LET account_id == PyGet(first.val, "accountId", JNull)
                    IN IF ~account_id.ok THEN account_id
                       ELSE IF PyTruthy(account_id.val) THEN account_id
                       ELSE Ok(JNull)

JiraTool == "jira_get_user_profile"

\* lines 88-92: raise NotFoundError, or shape and format the user
JiraFinish(identifier, ud) ==
    IF ~PyTruthy(ud)
    THEN ToolCatch(JiraTool, Exc("NotFoundError", NotFoundMessage(identifier)))
    ELSE LET s == jira_simplify_user(ud)
         IN IF s.ok THEN Returned(format_json_response(s.val))
            ELSE ToolCatch(JiraTool, s.exc)

----------------------------------------------------------------------------
(* confluence_users.py *)

ConfluenceTool == "confluence_search_users"

\* _simplify_user of confluence_users.py
confluence_simplify_user(user_data_) ==
    IF user_data_.t # "obj"
    THEN Raise("AttributeError", <<"object has no attribute 'get'">>)
    ELSE LET picture == PyGet(user_data_, "profilePicture", EmptyObj).val
             path == PyGet(picture, "path", JStr(""))
         IN IF ~path.ok THEN path
            ELSE Ok(JObj([k \in {"account_id", "display_name", "email",
                                 "account_type", "profile_picture"} |->
                   CASE k = "account_id" -> PyGet(user_data_, "accountId", JStr("")).val
                     [] k = "display_name" -> PyGet(user_data_, "displayName", JStr("")).val
                     [] k = "email" -> PyGet(user_data_, "email", JStr("")).val
                     [] k = "account_type" -> PyGet(user_data_, "accountType", JStr("")).val
                     [] OTHER -> path.val]))

\* _simplify_user(u.get('user', u)) for one element of the results
ConfluenceShapeOne(u) ==
    LET inner == PyGet(u, "user", u)
    IN IF ~inner.ok THEN inner ELSE confluence_simplify_user(inner.val)

\* iterating over x: the elements of a list, the characters of a string, the
\* keys of a mapping
PyIter(j) ==
    CASE j.t = "list" -> Ok(j.items)
      [] j.t = "str" -> Ok([i \in 1..Len(j.s) |-> JStr("c")])
      [] j.t = "obj" -> Ok([i \in 1..Cardinality(DOMAIN j.f) |-> JStr("key")])
      [] OTHER -> Raise("TypeError", <<"object is not iterable">>)

\* lines 61-70: shape the response of the search and format it
ConfluenceFinish(query, response) ==
    LET users == PyGet(response, "results", JList(<<>>))
    IN IF ~users.ok THEN ToolCatch(ConfluenceTool, users.exc)
       ELSE LET it == PyIter(users.val)
            IN IF ~it.ok THEN ToolCatch(ConfluenceTool, it.exc)
               ELSE LET shaped == [i \in 1..Len(it.val) |-> ConfluenceShapeOne(it.val[i])]
                        bad == {i \in 1..Len(shaped) : ~shaped[i].ok}
                    IN IF bad # {}
                       THEN ToolCatch(ConfluenceTool,
                                shaped[CHOOSE i \in bad : \A k \in bad : i <= k].exc)
                       ELSE Returned(format_json_response(
                                [users |-> [i \in 1..Len(shaped) |-> shaped[i].val],
                                 count |-> Len(shaped),
                                 query |-> query]))

ConfluenceSearch(client, query, limit) ==
    Req("get", RequestUrl(client, <<"/rest/api/search/user">>),
        [cql |-> <<"user.fullname ~ ", query, " OR user.email ~ ", query>>,
         limit |-> limit])

----------------------------------------------------------------------------
(* What the vendor can answer *)

UserFull ==
    JObj([k \in {"accountId", "displayName", "emailAddress", "active",
                 "accountType", "timeZone", "locale"} |->
            IF k = "active" THEN JBool(TRUE) ELSE JStr(k)])
UserSparse == JObj(Fields1("displayName", JStr("Test User")))
PickerId == "acc-1"

PayloadBodies ==
    {EmptyBody, TextBody,
     Body("p1", EmptyObj),
     Body("p2", UserFull),
     Body("p3", UserSparse),
     Body("p4", JList(<<>>)),
     Body("p5", JList(<<UserSparse, UserFull>>)),
     Body("p6", JList(<<EmptyObj>>)),
     Body("p7", JList(<<JStr("x")>>)),
     Body("p8", JNum(5)),
     Body("p9", JNull),
     Body("p10", JObj(Fields1("users", JList(<<>>)))),
     Body("p11", JObj(Fields1("users", JList(<<JObj(Fields1("accountId", JStr(PickerId)))>>)))),
     Body("p12", JObj(Fields1("users", JList(<<JObj(Fields1("name", JStr("x")))>>)))),
     Body("p13", JObj(Fields1("users", JStr("x")))),
     Body("p14", JObj(Fields1("results", JList(<<>>)))),
     Body("p15", JObj(Fields1("results", JList(<<JObj(Fields1("user", UserFull)), UserSparse>>)))),
     Body("p16", JObj(Fields1("results", JList(<<JObj(Fields1("user", JStr("x")))>>)))),
     Body("p17", JObj(Fields1("results", JNum(5)))),
     Body("p18", JObj(Fields1("results",
                JList(<<JObj(Fields1("profilePicture", JStr("x")))>>))))}

\* the error bodies used when a tool function is run
ToolErrorBodies == {Body("b6", JObj(Fields1("message", JStr("msg"))))}
ToolErrorStatuses == {400, 401, 403, 404, 500}

Outcomes(okBodies, errorStatuses, errorBodies) ==
    {Transport(x) : x \in TransportFailures}
    \cup {Response(st, b) : st \in OkStatuses, b \in okBodies}
    \cup {Response(st, b) : st \in errorStatuses, b \in errorBodies}

ToolOutcomes == Outcomes(PayloadBodies, ToolErrorStatuses, ToolErrorBodies)
HttpOutcomes == Outcomes(PayloadBodies \cup ErrorBodies, ErrorStatuses, ErrorBodies)

\* the configurations a tool function is run under
ToolUrls == {<<>>, <<"/">>, <<"h">>, <<"N">>}

ToolTokens == {None, Some("t")}

Identifiers == {"", "bob"}
Limits == {-1, 0, 10}

----------------------------------------------------------------------------
(* Spec: invocations of the tool functions *)

Init ==
    /\ env \in {[q \in Prefixes |-> IF q = p THEN r ELSE UnsetEnv] :
                  p \in Prefixes,
                  r \in [URL : {None} \cup {Some(u) : u \in ToolUrls},
                         USERNAME : ToolTokens, API_TOKEN : ToolTokens,
                         PAT_TOKEN : ToolTokens, API_VERSION : {None}]}
    /\ Blank

\* the call ends
End(r) ==
    /\ result' = r
    /\ pc' = "done"
    /\ UNCHANGED calls

\* the call goes on with one more request
Issue(req, next) ==
    /\ calls' = Append(calls, req)
    /\ pc' = next
    /\ result' = Nothing

\* jira_get_user_profile up to its first request
JiraStart ==
    /\ pc \in {"idle", "done"}
    /\ \E identifier \in Identifiers :
          LET c == get_jira_client(env)
          IN /\ tool' = JiraTool
             /\ arg' = [user_identifier |-> identifier]
             /\ log' = <<>>
             /\ user_data' = JNull
             /\ config' = IF c.ok THEN c.val ELSE Nothing
             /\ IF ~c.ok
                THEN result' = ToolCatch(JiraTool, c.exc) /\ pc' = "done" /\ calls' = <<>>
                ELSE IF identifier = ""
                THEN /\ result' = ToolCatch(JiraTool,
                                     Exc("ValidationError", <<"user_identifier is required">>))
                     /\ pc' = "done"
                     /\ calls' = <<>>
                ELSE /\ calls' = <<DirectLookup(c.val, identifier)>>
                     /\ pc' = "m1"
                     /\ result' = Nothing
    /\ UNCHANGED <<env, suspended>>

\* method 1: the direct lookup answers
JiraM1 ==
    /\ pc = "m1"
    /\ \E o \in ToolOutcomes : \E r \in request("get", o) :
          LET ud == IF r.ok THEN r.val ELSE user_data
          IN /\ log' = Append(log, r)
             /\ user_data' = ud
             /\ IF ~r.ok /\ ~Swallowed(r) THEN End(ToolCatch(JiraTool, r.exc))
                ELSE IF NeedsSearch(ud)
                THEN Issue(SearchRequest(config, arg.user_identifier), "m2")
                ELSE End(JiraFinish(arg.user_identifier, ud))
    /\ UNCHANGED <<env, suspended, tool, arg, config>>

\* method 2: the search answers
JiraM2 ==
    /\ pc = "m2"
    /\ \E o \in ToolOutcomes : \E r \in request("get", o) :
          LET sel == IF r.ok THEN SearchPick(user_data, r.val) ELSE Ok(user_data)
          IN /\ log' = Append(log, r)
             /\ user_data' = IF sel.ok THEN sel.val ELSE user_data
             /\ IF ~r.ok /\ ~Swallowed(r) THEN End(ToolCatch(JiraTool, r.exc))
                ELSE IF ~sel.ok THEN End(ToolCatch(JiraTool, sel.exc))
                ELSE IF NeedsPicker(sel.val)
                THEN Issue(PickerRequest(config, arg.user_identifier), "m3")
                ELSE End(JiraFinish(arg.user_identifier, sel.val))
    /\ UNCHANGED <<env, suspended, tool, arg, config>>

\* method 3: the picker answers
JiraM3 ==
    /\ pc = "m3"
    /\ \E o \in ToolOutcomes : \E r \in request("get", o) :
          LET sel == IF r.ok THEN PickerPick(r.val) ELSE Ok(JNull)
          IN /\ log' = Append(log, r)
             /\ IF ~r.ok /\ ~Swallowed(r) THEN End(ToolCatch(JiraTool, r.exc))
                ELSE IF ~sel.ok THEN End(ToolCatch(JiraTool, sel.exc))
                ELSE IF PyTruthy(sel.val)
                THEN Issue(FollowUpLookup(config, sel.val), "m4")
                ELSE End(JiraFinish(arg.user_identifier, user_data))
    /\ UNCHANGED <<env, suspended, tool, arg, config, user_data>>

\* method 3: the lookup of the picker's candidate answers
JiraM4 ==
    /\ pc = "m4"
    /\ \E o \in ToolOutcomes : \E r \in request("get", o) :
          LET ud == IF r.ok THEN r.val ELSE user_data
          IN /\ log' = Append(log, r)
             /\ user_data' = ud
             /\ IF ~r.ok /\ ~Swallowed(r) THEN End(ToolCatch(JiraTool, r.exc))
                ELSE End(JiraFinish(arg.user_identifier, ud))
    /\ UNCHANGED <<env, suspended, tool, arg, config>>

\* confluence_search_users up to its request
ConfluenceStart ==
    /\ pc \in {"idle", "done"}
    /\ \E query \in Identifiers, limit \in Limits :
          LET c == get_confluence_client(env)
          IN /\ tool' = ConfluenceTool
             /\ arg' = [query |-> query, limit |-> limit]
             /\ log' = <<>>
             /\ user_data' = JNull
             /\ config' = IF c.ok THEN c.val ELSE Nothing
             /\ IF ~c.ok
                THEN result' = ToolCatch(ConfluenceTool, c.exc) /\ pc' = "done" /\ calls' = <<>>
                ELSE IF query = ""
                THEN /\ result' = ToolCatch(ConfluenceTool,
                                     Exc("ValidationError", <<"query is required">>))
                     /\ pc' = "done"
                     /\ calls' = <<>>
                ELSE IF limit < 0
                THEN /\ result' = ToolCatch(ConfluenceTool,
                                     Exc("ValidationError", <<"limit must be non-negative">>))
                     /\ pc' = "done"
                     /\ calls' = <<>>
                ELSE /\ calls' = <<ConfluenceSearch(c.val, query, limit)>>
                     /\ pc' = "c1"
                     /\ result' = Nothing
    /\ UNCHANGED <<env, suspended>>

\* the search answers
ConfluenceResponse ==
    /\ pc = "c1"
    /\ \E o \in ToolOutcomes : \E r \in request("get", o) :
          /\ log' = Append(log, r)
          /\ IF ~r.ok THEN End(ToolCatch(ConfluenceTool, r.exc))
             ELSE End(ConfluenceFinish(arg.query, r.val))
    /\ UNCHANGED <<env, suspended, tool, arg, config, user_data>>

Next ==
    \/ JiraStart \/ JiraM1 \/ JiraM2 \/ JiraM3 \/ JiraM4
    \/ ConfluenceStart \/ ConfluenceResponse

Spec == Init /\ [][Next]_vars

----------------------------------------------------------------------------
(* SpecHttp: one client, one request per call *)

Methods == {"get", "post", "put", "delete"}

\* AtlassianClient(AtlassianConfig(...))
HttpNewClient ==
    /\ pc = "idle"
    /\ \E url \in ToolUrls, u \in ToolTokens, a \in ToolTokens, p \in ToolTokens,
          v \in Versions :
          config' = AtlassianClient(AtlassianConfig(url, u, a, p, v))
    /\ pc' = "constructed"
    /\ tool' = "AtlassianClient"
    /\ arg' = Nothing
    /\ result' = Ok(Nothing)
    /\ UNCHANGED <<env, suspended, calls, log, user_data>>

\* client.get(path) / post / put / delete, and what the session gives back
HttpRequest ==
    /\ pc = "constructed"
    /\ config.t = "client"
    /\ \E m \in Methods, o \in HttpOutcomes : \E r \in request(m, o) :
          /\ tool' = m
          /\ arg' = [path |-> <<"/test">>, response |-> o]
          /\ calls' = <<Req(m, RequestUrl(config, <<"/test">>), NoParams)>>
          /\ result' = r
    /\ pc' = "used"
    /\ UNCHANGED <<env, suspended, config, log, user_data>>

\* endpoints, over '/' and a path segment
Endpoints == UNION {[1..k -> {"/", "issue"}] : k \in 0..MaxEndpointLen}

\* client.api_path(endpoint)
ApiPath ==
    /\ pc = "constructed"
    /\ config.t = "client"
    /\ \E endpoint \in Endpoints :
          /\ arg' = [endpoint |-> endpoint]
          /\ result' = Ok([path |-> api_path(config, endpoint)])
    /\ tool' = "api_path"
    /\ pc' = "used"
    /\ UNCHANGED <<env, suspended, config, calls, log, user_data>>

InitHttp == InitCtor

NextHttp == HttpNewClient \/ HttpRequest \/ ApiPath \/ Discard

SpecHttp == InitHttp /\ [][NextHttp]_vars

----------------------------------------------------------------------------
(* parse_time_spent *)

\* the symbols of a time_spent string: two digits, the four unit letters,
\* an upper-case unit letter, 's', a blank, '.', '-' and the word inf
TimeStrings ==
    UNION {[1..k -> {"0", "1", "w", "d", "h", "m", "H", "s", " ", ".", "-", "inf"}] :
              k \in 0..MaxTimeLen}

Digits == {"0", "1"}

DigitValue(c) == IF c = "1" THEN 1 ELSE 0

\* str.strip()
RECURSIVE strip_leading(_)
strip_leading(s) == IF s # <<>> /\ s[1] = " " THEN strip_leading(Tail(s)) ELSE s

RECURSIVE strip_trailing(_)
strip_trailing(s) ==
    IF s # <<>> /\ s[Len(s)] = " "
    THEN strip_trailing(SubSeq(s, 1, Len(s) - 1)) ELSE s

strip(s) == strip_trailing(strip_leading(s))

IsDigits(s) == s # <<>> /\ \A i \in 1..Len(s) : s[i] \in Digits

\* the value of a string of decimal digits
RECURSIVE DecimalValue(_)
DecimalValue(s) ==
    IF s = <<>> THEN 0
    ELSE DecimalValue(SubSeq(s, 1, Len(s) - 1)) * 10 + DigitValue(s[Len(s)])

\* int(str): blanks around, an optional sign, then digits
py_int(s) ==
    LET t == strip(s)
        neg == t # <<>> /\ t[1] = "-"
        body == IF neg THEN Tail(t) ELSE t
    IN IF IsDigits(body)
       THEN Ok(IF neg THEN 0 - DecimalValue(body) ELSE DecimalValue(body))
       ELSE Raise("ValueError", <<"invalid literal for int() with base 10">>)

\* float(str): blanks around, an optional sign, then inf, or digits with at
\* most one '.' and a digit on at least one side of it.  The value is kept as
\* sign and integer part, which is all int() reads of it.
py_float(s) ==
    LET t == strip(s)
        neg == t # <<>> /\ t[1] = "-"
        body == IF neg THEN Tail(t) ELSE t
        dots == {i \in 1..Len(body) : body[i] = "."}
        dot == IF dots = {} THEN Len(body) + 1 ELSE CHOOSE i \in dots : TRUE
        whole == SubSeq(body, 1, dot - 1)
        frac == SubSeq(body, dot + 1, Len(body))
    IN IF body = <<"inf">>
       THEN Ok([inf |-> TRUE, neg |-> neg, whole |-> 0])
       ELSE IF /\ Cardinality(dots) <= 1
               /\ \A i \in 1..Len(body) : body[i] \in Digits \cup {"."}
               /\ whole \o frac # <<>>
       THEN Ok([inf |-> FALSE, neg |-> neg, whole |-> DecimalValue(whole)])
       ELSE Raise("ValueError", <<"could not convert string to float">>)

\* int(float): truncation towards zero; infinity cannot be converted
int_of_float(f) ==
    IF f.inf
    THEN Raise("OverflowError", <<"cannot convert float infinity to integer">>)
    ELSE Ok(IF f.neg THEN 0 - f.whole ELSE f.whole)

\* time_units
time_units_week_as_day(unit) ==
    CASE unit = "w" -> 24 * 60 * 60
      [] unit = "d" -> 24 * 60 * 60
      [] unit = "h" -> 60 * 60
      [] unit = "m" -> 60

time_units(unit) ==
    CASE unit = "w" -> 7 * 24 * 60 * 60
      [] unit = "d" -> 24 * 60 * 60
      [] unit = "h" -> 60 * 60
      [] unit = "m" -> 60

\* the last index of the run of digits that starts at i
RECURSIVE DigitRunEnd(_, _)
DigitRunEnd(s, i) ==
    IF i + 1 <= Len(s) /\ s[i + 1] \in Digits THEN DigitRunEnd(s, i + 1) ELSE i

\* re.findall(r'(\d+)([wdhm])', s) from index i on: leftmost matches, the
\* digits taken greedily, the search resumed after each match
RECURSIVE findall_from(_, _)
findall_from(s, i) ==
    IF i > Len(s) THEN <<>>
    ELSE IF s[i] \in Digits
    THEN LET j == DigitRunEnd(s, i)
         IN IF j + 1 <= Len(s) /\ s[j + 1] \in {"w", "d", "h", "m"}
            THEN <<[value |-> SubSeq(s, i, j), unit |-> s[j + 1]]>>
                     \o findall_from(s, j + 2)
            ELSE findall_from(s, i + 1)
    ELSE findall_from(s, i + 1)

findall(s) == findall_from(s, 1)

\* the loop over the matches
RECURSIVE total_seconds(_)
total_seconds(matches) ==
    IF matches = <<>> THEN 0
    ELSE DecimalValue(matches[1].value) * time_units(matches[1].unit)
             + total_seconds(Tail(matches))

InvalidTimeFormat(t) ==
    Raise("ValidationError",
          <<"Invalid time format: ">> \o t
              \o <<". Use formats like \"1h 30m\", \"2d\", \"1w\", \"45m\", or seconds as a number.">>)

\* parse_time_spent from the unit scan on
units_or_number(t) ==
    LET total == total_seconds(findall(Lower(t)))
        f == py_float(t)
        raw_value == int_of_float(f.val)
    IN IF total > 0 THEN Ok([int |-> total])
       ELSE IF ~f.ok THEN InvalidTimeFormat(t)
       ELSE IF ~raw_value.ok THEN raw_value
       ELSE IF raw_value.val > 0 THEN Ok([int |-> raw_value.val])
       ELSE InvalidTimeFormat(t)

parse_time_spent_seconds_fall_through(time_spent) ==
    LET t == strip(time_spent)
        seconds == py_int(SubSeq(t, 1, Len(t) - 1))
    IN IF t = <<>>
       THEN Raise("ValidationError", <<"time_spent is required and cannot be empty">>)
       ELSE IF t[Len(t)] = "s" /\ seconds.ok
       THEN Ok([int |-> seconds.val])
       ELSE units_or_number(t)

parse_time_spent(time_spent) ==
    LET t == strip(time_spent)
        seconds == py_int(SubSeq(t, 1, Len(t) - 1))
    IN IF t = <<>>
       THEN Raise("ValidationError", <<"time_spent is required and cannot be empty">>)
       ELSE IF t[Len(t)] = "s"
       THEN IF seconds.ok
            THEN Ok([int |-> seconds.val])
            ELSE Raise("ValidationError", <<"Invalid seconds format: ">> \o t)
       ELSE units_or_number(t)

----------------------------------------------------------------------------
(* SpecParse: parse_time_spent applied to one string *)

InitParse ==
    /\ env = NoEnv
    /\ pc = "idle"
    /\ tool = "none"
    /\ arg \in {[time_spent |-> s] : s \in TimeStrings}
    /\ config = Nothing
    /\ calls = <<>>
    /\ log = <<>>
    /\ user_data = Nothing
    /\ result = Nothing
    /\ suspended = Nothing

\* parse_time_spent(time_spent)
ParseTimeSpent ==
    /\ pc = "idle"
    /\ tool' = "parse_time_spent"
    /\ result' = parse_time_spent(arg.time_spent)
    /\ pc' = "used"
    /\ UNCHANGED <<env, suspended, arg, config, calls, log, user_data>>

SpecParse == InitParse /\ [][ParseTimeSpent]_vars

----------------------------------------------------------------------------
(* simplify_issue *)

\* x.get('name', '') if x else ''
NameOf(x) == IF PyTruthy(x) THEN PyGet(x, "name", JStr("")) ELSE Ok(JStr(""))

\* x.get('emailAddress', '') if x else None
EmailOf(x) == IF PyTruthy(x) THEN PyGet(x, "emailAddress", JStr("")) ELSE Ok(JNull)

\* [c.get('name', '') for c in components]
ComponentNames(components) ==
    LET it == PyIter(components)
    IN IF ~it.ok THEN it
       ELSE LET names == [i \in 1..Len(it.val) |-> PyGet(it.val[i], "name", JStr(""))]
                failed == {i \in 1..Len(names) : ~names[i].ok}
            IN IF failed # {}
               THEN names[CHOOSE i \in failed : \A j \in failed : i <= j]
               ELSE Ok(JList([i \in 1..Len(names) |-> names[i].val]))

\* lines 436-442: the custom fields are added under one more key, when there
\* are any
with_custom_fields_always(simplified, custom_fields) ==
    [k \in DOMAIN simplified \cup {"custom_fields"} |->
        IF k = "custom_fields" THEN JObj(custom_fields) ELSE simplified[k]]

with_custom_fields(simplified, custom_fields) ==
    IF DOMAIN custom_fields # {}
    THEN [k \in DOMAIN simplified \cup {"custom_fields"} |->
            IF k = "custom_fields" THEN JObj(custom_fields) ELSE simplified[k]]
    ELSE simplified

simplify_issue(issue_data) ==
    LET fields == PyGet(issue_data, "fields", EmptyObj).val
        Field(k, default) == PyGet(fields, k, default).val
        assignee_email == EmailOf(Field("assignee", JNull))
        reporter_email == EmailOf(Field("reporter", JNull))
        status == NameOf(Field("status", EmptyObj))
        issue_type == NameOf(Field("issuetype", EmptyObj))
        priority == NameOf(Field("priority", EmptyObj))
        components == ComponentNames(Field("components", JList(<<>>)))
        steps == <<assignee_email, reporter_email, status, issue_type, priority,
                   components>>
        failed == {i \in 1..Len(steps) : ~steps[i].ok}
        simplified ==
            [key         |-> PyGet(issue_data, "key", JStr("")).val,
             id          |-> PyGet(issue_data, "id", JStr("")).val,
             summary     |-> Field("summary", JStr("")),
             description |-> Field("description", JStr("")),
             status      |-> status.val,
             issue_type  |-> issue_type.val,
             priority    |-> priority.val,
             assignee    |-> assignee_email.val,
             reporter    |-> reporter_email.val,
             created     |-> Field("created", JStr("")),
             updated     |-> Field("updated", JStr("")),
             labels      |-> Field("labels", JList(<<>>)),
             components  |-> components.val]
        \* key.startswith('customfield_')
        custom_fields ==
            [k \in {x \in DOMAIN fields.f : x \in {"customfield_1", "customfield_2"}} |->
                fields.f[k]]
    IN IF fields.t # "obj"
       THEN Raise("AttributeError", <<"object has no attribute 'get'">>)
       ELSE IF failed # {}
       THEN steps[CHOOSE i \in failed : \A j \in failed : i <= j]
       ELSE Ok(JObj(with_custom_fields(simplified, custom_fields)))

\* a key the vendor JSON does not have
Absent == [t |-> "absent"]

\* the JSON object with the entries of opts that are not Absent
ObjOf(opts) == JObj([k \in {x \in DOMAIN opts : opts[x] # Absent} |-> opts[k]])

\* vendor issues, from sparse to rich: with or without key, without
\* 'fields', with null, or with fields drawn entry by entry
Issues ==
    LET Named == JObj(Fields1("name", JStr("n")))
        Person == JObj(Fields1("emailAddress", JStr("a@example.com")))
    IN
    {ObjOf(o) : o \in
        [key    : {Absent, JStr("PROJ-123")},
         fields : {Absent, JNull} \cup
    {ObjOf(o2) : o2 \in
        [summary       : {Absent, JStr("Test Issue")},
         assignee      : {Absent, JNull, EmptyObj, Person},
         reporter      : {Absent, Person},
         status        : {Absent, JNull, Named},
         issuetype     : {Absent, Named},
         priority      : {Absent, JNull},
         labels        : {Absent, JList(<<JStr("l")>>)},
         components    : {Absent, JNull, JList(<<>>), JList(<<Named>>),
                          JList(<<EmptyObj, JStr("x")>>)},
         customfield_1 : {Absent, JNull, JStr("v")},
         environment   : {Absent, JStr("e")}]}]}

----------------------------------------------------------------------------
(* SpecIssue: simplify_issue applied to one vendor issue *)

InitIssue ==
    /\ env = NoEnv
    /\ pc = "idle"
    /\ tool = "none"
    /\ arg \in {[issue_data |-> i] : i \in Issues}
    /\ config = Nothing
    /\ calls = <<>>
    /\ log = <<>>
    /\ user_data = Nothing
    /\ result = Nothing
    /\ suspended = Nothing

\* simplify_issue(issue_data)
SimplifyIssue ==
    /\ pc = "idle"
    /\ tool' = "simplify_issue"
    /\ result' = simplify_issue(arg.issue_data)
    /\ pc' = "used"
    /\ UNCHANGED <<env, suspended, arg, config, calls, log, user_data>>

SpecIssue == InitIssue /\ [][SimplifyIssue]_vars

----------------------------------------------------------------------------
(* SpecConc: two invocations of the tool functions, interleaved *)

\* what an invocation owns: its arguments, its locals, the configuration and
\* the client it built, the requests it made
Frame ==
    [pc |-> pc, tool |-> tool, arg |-> arg, config |-> config, calls |-> calls,
     log |-> log, user_data |-> user_data, result |-> result]

\* {PREFIX}_URL and {PREFIX}_PAT_TOKEN set
PatEnv(url) ==
    [URL |-> Some(url), USERNAME |-> None, API_TOKEN |-> None,
     PAT_TOKEN |-> Some("t"), API_VERSION |-> None]

\* what client.get gives the two invocations: a timeout, a 404, a user, an
\* empty list, a picker candidate
ConcAnswers ==
    UNION {request("get", o) : o \in
    {Transport("Timeout"),
     Response(404, Body("b6", JObj(Fields1("message", JStr("msg"))))),
     Response(200, Body("p3", UserSparse)),
     Response(200, Body("p4", JList(<<>>))),
     Response(200, Body("p11", JObj(Fields1("users",
                       JList(<<JObj(Fields1("accountId", JStr(PickerId)))>>)))))}}

\* Jira and Confluence configured on different hosts, or Jira alone
InitConc ==
    /\ env \in {[q \in Prefixes |-> CASE q = "JIRA" -> PatEnv(<<"h">>)
                                      [] q = "CONFLUENCE" -> PatEnv(<<"N">>)
                                      [] OTHER -> UnsetEnv],
                [q \in Prefixes |-> IF q = "JIRA" THEN PatEnv(<<"h">>) ELSE UnsetEnv]}
    /\ pc = "idle"
    /\ tool = "none"
    /\ arg = Nothing
    /\ config = Nothing
    /\ calls = <<>>
    /\ log = <<>>
    /\ user_data = Nothing
    /\ result = Nothing
    /\ suspended = [pc |-> "idle", tool |-> "none", arg |-> Nothing,
                    config |-> Nothing, calls |-> <<>>, log |-> <<>>,
                    user_data |-> Nothing, result |-> Nothing]

\* the scheduler takes the running invocation off and puts the other one on:
\* each keeps its own frame
SwitchSharedClient ==
    /\ suspended' = Frame
    /\ pc' = suspended.pc
    /\ tool' = suspended.tool
    /\ arg' = suspended.arg
    /\ config' = IF config # Nothing /\ suspended.pc # "idle"
                  THEN config ELSE suspended.config
    /\ calls' = suspended.calls
    /\ log' = suspended.log
    /\ user_data' = suspended.user_data
    /\ result' = suspended.result
    /\ UNCHANGED env

Switch ==
    /\ suspended' = Frame
    /\ pc' = suspended.pc
    /\ tool' = suspended.tool
    /\ arg' = suspended.arg
    /\ config' = suspended.config
    /\ calls' = suspended.calls
    /\ log' = suspended.log
    /\ user_data' = suspended.user_data
    /\ result' = suspended.result
    /\ UNCHANGED env

\* the steps of the running invocation, on the answers above
ConcJiraM1 == JiraM1 /\ log'[Len(log')] \in ConcAnswers
ConcJiraM2 == JiraM2 /\ log'[Len(log')] \in ConcAnswers
ConcJiraM3 == JiraM3 /\ log'[Len(log')] \in ConcAnswers
ConcJiraM4 == JiraM4 /\ log'[Len(log')] \in ConcAnswers
ConcConfluenceResponse == ConfluenceResponse /\ log'[Len(log')] \in ConcAnswers

NextConc ==
    \/ JiraStart \/ ConcJiraM1 \/ ConcJiraM2 \/ ConcJiraM3 \/ ConcJiraM4
    \/ ConfluenceStart \/ ConcConfluenceResponse
    \/ Switch

SpecConc == InitConc /\ [][NextConc]_vars

\* jira_get_user_profile run alone from start to end, given what client.get
\* gives back for its requests, in order: what it returns and the requests
\* it makes
AloneJira(e, a, answers) ==
    LET identifier == a.user_identifier
        c == get_jira_client(e)
        client == c.val
        Caught(x, cs) == [result |-> ToolCatch(JiraTool, x), calls |-> cs]
        Finish(ud, cs) == [result |-> JiraFinish(identifier, ud), calls |-> cs]
        c1 == <<DirectLookup(client, identifier)>>
        r1 == answers[1]
        ud1 == IF r1.ok THEN r1.val ELSE JNull
        c2 == Append(c1, SearchRequest(client, identifier))
        r2 == answers[2]
        sel2 == IF r2.ok THEN SearchPick(ud1, r2.val) ELSE Ok(ud1)
        ud2 == sel2.val
        c3 == Append(c2, PickerRequest(client, identifier))
        r3 == answers[3]
        sel3 == IF r3.ok THEN PickerPick(r3.val) ELSE Ok(JNull)
        c4 == Append(c3, FollowUpLookup(client, sel3.val))
        r4 == answers[4]
    IN IF ~c.ok THEN Caught(c.exc, <<>>)
       ELSE IF identifier = ""
       THEN Caught(Exc("ValidationError", <<"user_identifier is required">>), <<>>)
       ELSE IF ~r1.ok /\ ~Swallowed(r1) THEN Caught(r1.exc, c1)
       ELSE IF PyTruthy(ud1) THEN Finish(ud1, c1)
       ELSE IF ~r2.ok /\ ~Swallowed(r2) THEN Caught(r2.exc, c2)
       ELSE IF ~sel2.ok THEN Caught(sel2.exc, c2)
       ELSE IF PyTruthy(ud2) THEN Finish(ud2, c2)
       ELSE IF ~r3.ok /\ ~Swallowed(r3) THEN Caught(r3.exc, c3)
       ELSE IF ~sel3.ok THEN Caught(sel3.exc, c3)
       ELSE IF ~PyTruthy(sel3.val) THEN Finish(ud2, c3)
       ELSE IF ~r4.ok /\ ~Swallowed(r4) THEN Caught(r4.exc, c4)
       ELSE Finish(IF r4.ok THEN r4.val ELSE ud2, c4)

\* confluence_search_users run alone
AloneConfluence(e, a, answers) ==
    LET c == get_confluence_client(e)
        Caught(x, cs) == [result |-> ToolCatch(ConfluenceTool, x), calls |-> cs]
        c1 == <<ConfluenceSearch(c.val, a.query, a.limit)>>
        r1 == answers[1]
    IN IF ~c.ok THEN Caught(c.exc, <<>>)
       ELSE IF a.query = ""
       THEN Caught(Exc("ValidationError", <<"query is required">>), <<>>)
       ELSE IF a.limit < 0
       THEN Caught(Exc("ValidationError", <<"limit must be non-negative">>), <<>>)
       ELSE IF ~r1.ok THEN Caught(r1.exc, c1)
       ELSE [result |-> ConfluenceFinish(a.query, r1.val), calls |-> c1]

----------------------------------------------------------------------------
(* AtlassianCredentials and check_available_skills *)

Services == <<"jira", "confluence", "bitbucket">>

ServiceNames == {Services[i] : i \in 1..Len(Services)}

\* is_jira_available / is_confluence_available / is_bitbucket_available: the
\* URL is non-empty and a PAT, or a username with an API token, is there
is_service_available_auth_only(creds, service) ==
    LET c == creds[service]
    IN Truthy(c.pat_token) \/ (Truthy(c.username) /\ Truthy(c.api_token))

is_service_available(creds, service) ==
    LET c == creds[service]
    IN /\ c.url.some
       /\ c.url.v # <<>>
       /\ Truthy(c.pat_token) \/ (Truthy(c.username) /\ Truthy(c.api_token))

\* get_available_services
get_available_services(creds) ==
    LET Available(service) == is_service_available(creds, service)
    IN SelectSeq(Services, Available)

\* get_unavailable_services: a one-line reason per service that is not
\* available
get_unavailable_services(creds) ==
    [service \in {x \in ServiceNames : ~is_service_available(creds, x)} |->
        IF ~(creds[service].url.some /\ creds[service].url.v # <<>>)
        THEN <<"Missing ", service, "_url">>
        ELSE <<"Missing ", service, " authentication (need PAT or username+token)">>]

check_available_skills(creds) ==
    [available_services   |-> get_available_services(creds),
     unavailable_services |-> get_unavailable_services(creds)]

----------------------------------------------------------------------------
(* SpecCreds: check_available_skills applied to one credentials bundle *)

InitCreds ==
    /\ env = NoEnv
    /\ pc = "idle"
    /\ tool = "none"
    /\ arg \in {[credentials |-> c] : c \in
                  [ServiceNames -> [url       : {None, Some(<<>>), Some(<<"h">>)},
                                    username  : ToolTokens,
                                    api_token : ToolTokens,
                                    pat_token : Tokens]]}
    /\ config = Nothing
    /\ calls = <<>>
    /\ log = <<>>
    /\ user_data = Nothing
    /\ result = Nothing
    /\ suspended = Nothing

\* check_available_skills(credentials)
CheckAvailableSkills ==
    /\ pc = "idle"
    /\ tool' = "check_available_skills"
    /\ result' = Ok(check_available_skills(arg.credentials))
    /\ pc' = "used"
    /\ UNCHANGED <<env, suspended, arg, config, calls, log, user_data>>

SpecCreds == InitCreds /\ [][CheckAvailableSkills]_vars

----------------------------------------------------------------------------
(* Properties *)

Last(q) == q[Len(q)]

\* the document the caller gets by parsing the returned string
Doc == json_loads(result.text)

IsEnvelope(d) ==
    /\ {"success", "error", "error_type"} \subseteq DOMAIN d
    /\ d.success = FALSE

IsSuccessData(t, d) ==
    IF t = JiraTool
    THEN "f" \in DOMAIN d /\ DOMAIN d.f = JiraUserKeys
    ELSE DOMAIN d = {"users", "count", "query"}

ReturnedError(kind) ==
    /\ result.t = "returned"
    /\ IsEnvelope(Doc)
    /\ Doc.error_type = kind

RequiredArgEmpty ==
    \/ tool = JiraTool /\ arg.user_identifier = ""
    \/ tool = ConfluenceTool /\ arg.query = ""

\* a lookup gave no user: it was swallowed, or it returned something falsy
YieldedNothing(r) == Swallowed(r) \/ (r.ok /\ ~PyTruthy(r.val))

\* a match of the search: a non-empty user record
IsMatch(j) == j.t = "obj" /\ DOMAIN j.f # {}

SearchMatched(r) ==
    r.ok /\ r.val.t = "list" /\ r.val.items # <<>> /\ IsMatch(r.val.items[1])

SearchNothing(r) ==
    \/ YieldedNothing(r)
    \/ r.ok /\ r.val.t = "list" /\ r.val.items # <<>> /\ ~PyTruthy(r.val.items[1])

PickerCandidateId(r) ==
    LET us == r.val.f["users"] IN us.items[1].f["accountId"]

PickerHasCandidate(r) ==
    /\ r.ok /\ r.val.t = "obj" /\ "users" \in DOMAIN r.val.f
    /\ LET us == r.val.f["users"]
       IN /\ us.t = "list" /\ us.items # <<>> /\ us.items[1].t = "obj"
          /\ "accountId" \in DOMAIN us.items[1].f
          /\ PyTruthy(us.items[1].f["accountId"])

PickerNothing(r) ==
    \/ Swallowed(r)
    \/ /\ r.ok /\ r.val.t = "obj"
       /\ \/ "users" \notin DOMAIN r.val.f
          \/ ~PyTruthy(r.val.f["users"])
          \/ LET us == r.val.f["users"]
             IN /\ us.t = "list" /\ us.items[1].t = "obj"
                /\ \/ "accountId" \notin DOMAIN us.items[1].f
                   \/ ~PyTruthy(us.items[1].f["accountId"])

\* the URL of the i-th request of jira_get_user_profile
JiraEndpoints ==
    << <<"user">>, <<"user", "/", "search">>, <<"user", "/", "picker">>, <<"user">> >>

JiraUrl(i) ==
    config.config.url \o <<"/rest/api/", config.api_version, "/">> \o JiraEndpoints[i]

\* C1: every finished call of a tool function has returned a string that
\* parses as JSON and is the success data or an envelope with success=false,
\* error and error_type; no exception has escaped.
C1_AlwaysJson ==
    pc = "done" =>
        /\ result.t = "returned"
        /\ IsEnvelope(Doc) \/ IsSuccessData(tool, Doc)

\* a response of an unexpected shape made the call fail, and the failure came
\* back as an envelope
C1_Witness ==
    /\ pc = "done"
    /\ log # <<>>
    /\ Last(log).ok
    /\ ReturnedError("UnexpectedError")

\* C2 as stated: a call with its required argument empty returns the
\* ValidationError envelope in every configuration state and issues no HTTP
\* request.
C2_EmptyArgIsValidationError ==
    (pc = "done" /\ RequiredArgEmpty) =>
        /\ ReturnedError("ValidationError")
        /\ calls = <<>>

\* C3: for a response with status >= 400 the error raised by get, post, put
\* or delete is decided by the status code alone: 401 AuthenticationError,
\* 403 AuthenticationError "Access forbidden", 400 ValidationError, 404
\* NotFoundError, any other status APIError with the status code in its
\* message.
C3_StatusDecidesKind ==
    (pc = "used" /\ tool \in Methods /\ arg.response.t = "response"
        /\ arg.response.status_code >= 400) =>
        /\ ~result.ok
        /\ LET st == arg.response.status_code
               e == result.exc
           IN /\ st = 401 => e.kind = "AuthenticationError"
              /\ st = 403 => e.kind = "AuthenticationError" /\ e.msg[1] = "Access forbidden: "
              /\ st = 400 => e.kind = "ValidationError"
              /\ st = 404 => e.kind = "NotFoundError"
              /\ st \notin {400, 401, 403, 404} =>
                    /\ e.kind = "APIError"
                    /\ \E i \in 1..Len(e.msg) : e.msg[i] = ToString(st)

\* a 403 whose JSON body has an empty errorMessages list
C3_Witness ==
    /\ pc = "used"
    /\ tool \in Methods
    /\ arg.response.t = "response"
    /\ arg.response.status_code = 403
    /\ arg.response.json = JObj(Fields1("errorMessages", JList(<<>>)))
    /\ ~result.ok
    /\ result.exc.kind = "AuthenticationError"

\* C4 as stated: a typed error raised by the client and not swallowed as a
\* fallthrough of the user lookup is reported under its own kind by every
\* tool function; in particular a 404 is reported as NotFoundError.
C4_TypedErrorKeepsKind ==
    (pc = "done" /\ log # <<>> /\ ~Last(log).ok
        /\ Last(log).exc.kind \in TypedErrors
        /\ ~(tool = JiraTool /\ Swallowed(Last(log)))) =>
        ReturnedError(Last(log).exc.kind)

\* C5: the requests of jira_get_user_profile are a prefix of
\* [user, user/search, user/picker, user]; each is issued after the previous
\* one has completed and yielded nothing; at most four are made, and exactly
\* one when the direct lookup returns a user.
C5_CallOrder ==
    tool = JiraTool =>
        /\ Len(calls) <= 4
        /\ \A i \in 1..Len(calls) : calls[i].url = JiraUrl(i)
        /\ Len(log) <= Len(calls) /\ Len(calls) <= Len(log) + 1
        /\ Len(calls) >= 2 => YieldedNothing(log[1])
        /\ Len(calls) >= 3 => SearchNothing(log[2])
        /\ Len(calls) >= 4 => PickerHasCandidate(log[3])
        /\ (pc = "done" /\ log # <<>> /\ log[1].ok /\ PyTruthy(log[1].val)) =>
              Len(calls) = 1

\* all four requests were made
C5_Witness ==
    /\ tool = JiraTool
    /\ pc = "done"
    /\ Len(calls) = 4
    /\ Len(log) = 4

\* C6: when the direct lookup gave nothing and the search returns a list
\* with a match, the first match is shaped and returned and the picker is
\* not called.
C6_SearchMatchReturned ==
    (tool = JiraTool /\ Len(log) >= 2 /\ YieldedNothing(log[1])
        /\ SearchMatched(log[2])) =>
        /\ pc = "done"
        /\ Len(calls) = 2
        /\ result = Returned(format_json_response(
                        jira_simplify_user(log[2].val.items[1]).val))

\* the direct lookup failed with 404 and the search matched two users
C6_Witness ==
    /\ tool = JiraTool
    /\ pc = "done"
    /\ Len(log) = 2
    /\ Swallowed(log[1])
    /\ SearchMatched(log[2])
    /\ Len(log[2].val.items) = 2
    /\ result.t = "returned"
    /\ Doc.f["display_name"] = JStr("Test User")

AllYieldedNothing ==
    /\ Len(log) >= 3
    /\ YieldedNothing(log[1])
    /\ SearchNothing(log[2])
    /\ \/ Len(log) = 3 /\ PickerNothing(log[3])
       \/ Len(log) = 4 /\ PickerHasCandidate(log[3]) /\ YieldedNothing(log[4])

\* C7: when every strategy yields nothing the result is the NotFoundError
\* envelope whose message names the identifier the caller passed, not the one
\* the picker gave.
C7_NotFoundNamesIdentifier ==
    (tool = JiraTool /\ pc = "done" /\ AllYieldedNothing) =>
        /\ ReturnedError("NotFoundError")
        /\ \E i \in 1..Len(Doc.error) : Doc.error[i] = arg.user_identifier
        /\ \A i \in 1..Len(Doc.error) : Doc.error[i] # PickerId

\* the picker gave a candidate and the lookup of the candidate failed
C7_Witness ==
    /\ tool = JiraTool
    /\ pc = "done"
    /\ Len(log) = 4
    /\ PickerHasCandidate(log[3])
    /\ PickerCandidateId(log[3]) = JStr(PickerId)
    /\ Swallowed(log[4])
    /\ ReturnedError("NotFoundError")

\* C8 as stated: the direct lookup sends the identifier as 'username' on
\* Data Center and as 'accountId' on Cloud.
C8_DirectLookupParameter ==
    (tool = JiraTool /\ calls # <<>>) =>
        calls[1].params =
            IF is_cloud(config.config)
            THEN [accountId |-> JStr(arg.user_identifier)]
            ELSE [username |-> JStr(arg.user_identifier)]

\* the statement of C9, for a given reading of "the URL is there"
EnvCredentials(prefix) ==
    \/ Truthy(env[prefix].PAT_TOKEN)
    \/ Truthy(env[prefix].USERNAME) /\ Truthy(env[prefix].API_TOKEN)

FromEnvStatement(urlThere) ==
    (pc = "constructed" /\ tool \in {"from_env", "get_client"}) =>
        /\ result.ok <=> (urlThere /\ EnvCredentials(arg.prefix))
        /\ ~result.ok => result.exc.kind = "ConfigurationError"
        /\ result.ok =>
              (IF config.t = "client" THEN config.config ELSE config).auth_type # "unknown"

\* C9 as stated: from_env returns a config iff {PREFIX}_URL is non-empty and
\* the credentials are there, else fails with ConfigurationError.
C9_FromEnvIffUrlNonEmpty ==
    FromEnvStatement(pc = "constructed" /\ "prefix" \in DOMAIN arg
                     /\ env[arg.prefix].URL.some /\ env[arg.prefix].URL.v # <<>>)

\* C9, amended: from_env (and get_*_client) returns a config iff
\* {PREFIX}_URL has a character other than '/' left once its trailing
\* slashes are dropped and a PAT, or a username with an API token, is
\* non-empty; else it fails with ConfigurationError; no config it returns has
\* auth mode 'unknown'.
C9_FromEnvIffUrlLeft ==
    FromEnvStatement(pc = "constructed" /\ "prefix" \in DOMAIN arg
                     /\ env[arg.prefix].URL.some
                     /\ \E i \in 1..Len(env[arg.prefix].URL.v) :
                           env[arg.prefix].URL.v[i] # "/")

\* a username and an API token, no PAT, and a URL that ends in a slash
C9_Witness ==
    /\ pc = "constructed"
    /\ tool = "from_env"
    /\ result.ok
    /\ config.auth_type = "basic"
    /\ env[arg.prefix].URL.v # config.url

\* C10: the auth mode is 'pat' whenever a PAT is there, 'basic' when no PAT
\* is there and a username and an API token are, 'unknown' otherwise; no
\* method of the config changes it.
C10_AuthMode ==
    /\ [](config.t = "config" =>
            /\ Truthy(config.pat_token) => config.auth_type = "pat"
            /\ (~Truthy(config.pat_token) /\ Truthy(config.username)
                    /\ Truthy(config.api_token)) => config.auth_type = "basic"
            /\ (~Truthy(config.pat_token)
                    /\ ~(Truthy(config.username) /\ Truthy(config.api_token))) =>
                  config.auth_type = "unknown")
    /\ [][(config.t = "config" /\ config'.t = "config") =>
            config'.auth_type = config.auth_type]_vars

\* a PAT, a username and an API token together, after a method has run
C10_Witness ==
    /\ pc = "used"
    /\ config.t = "config"
    /\ Truthy(config.pat_token)
    /\ Truthy(config.username)
    /\ Truthy(config.api_token)
    /\ config.auth_type = "pat"

\* C11 as stated: a client built from a config whose auth mode is 'unknown'
\* sends nothing: every get / post / put / delete on it fails with
\* ConfigurationError before a request is issued.
C11_UnknownNeverSends ==
    (pc = "used" /\ tool \in Methods /\ config.t = "client"
        /\ config.config.auth_type = "unknown") =>
        /\ calls = <<>>
        /\ ~result.ok
        /\ result.exc.kind = "ConfigurationError"

\* the host of a URL: what stands before its first '/' (the scheme is not
\* part of the alphabet)
RECURSIVE HostOf(_)
HostOf(s) == IF s = <<>> \/ s[1] = "/" THEN <<>> ELSE <<s[1]>> \o HostOf(Tail(s))

MentionsAtlassianNet(s) == \E i \in 1..Len(s) : s[i] \in {"N", "M"}

\* the statement of C12, for a given reading of "the URL is a Cloud URL"
DetectStatement(cloud) ==
    (pc = "used" /\ tool = "detect_api_version" /\ config.t = "config") =>
        result.val.s =
            IF Truthy(config.api_version) THEN config.api_version.v
            ELSE IF cloud THEN "3" ELSE "2"

\* C12 as stated: the override wins; without one the version is '3' when
\* the host of the URL contains atlassian.net and '2' for every other URL.
C12_HostDecides ==
    DetectStatement(config.t = "config" /\ MentionsAtlassianNet(HostOf(config.url)))

\* C12, amended: a non-empty override wins; without one the version is '3'
\* when atlassian.net occurs anywhere in the stored URL, in either case, path
\* included, and '2' for every URL in which it does not occur.
C12_UrlDecides ==
    DetectStatement(config.t = "config" /\ MentionsAtlassianNet(config.url))

\* no override, a host without atlassian.net and a path with it
C12_Witness ==
    /\ pc = "used"
    /\ tool = "detect_api_version"
    /\ ~Truthy(config.api_version)
    /\ ~MentionsAtlassianNet(HostOf(config.url))
    /\ HostOf(config.url) # <<>>
    /\ MentionsAtlassianNet(config.url)
    /\ result.val.s = "3"


\* C13 as stated: the API version resolved for a client is '2' or '3' for
\* every configuration the resolver accepts, an explicit override included.
C13_VersionIsTwoOrThree ==
    (config # Nothing /\ config.t = "client") => config.api_version \in {"2", "3"}


EndsInSlash(s) == s # <<>> /\ s[Len(s)] = "/"

\* a config has just been built from arguments
JustConstructed == pc = "constructed" /\ tool = "AtlassianConfig"

\* C14 as stated: constructing a config strips exactly one trailing '/':
\* a URL ending in a slash is stored without its last symbol, slashes before
\* it kept, and a URL without a trailing slash is stored unchanged.
C14_StripsOneSlash ==
    JustConstructed =>
        config.url = IF EndsInSlash(arg.url)
                     THEN SubSeq(arg.url, 1, Len(arg.url) - 1)
                     ELSE arg.url

\* C14, amended: constructing a config strips every trailing '/': the
\* stored URL is the prefix of the given one that does not end in '/' and is
\* followed by slashes only; a URL without a trailing slash is stored
\* unchanged.
C14_StripsEverySlash ==
    JustConstructed =>
        /\ ~EndsInSlash(config.url)
        /\ Len(config.url) <= Len(arg.url)
        /\ config.url = SubSeq(arg.url, 1, Len(config.url))
        /\ \A i \in (Len(config.url) + 1)..Len(arg.url) : arg.url[i] = "/"

\* a URL given with two trailing slashes after a host
C14_Witness ==
    /\ JustConstructed
    /\ Len(arg.url) = 3
    /\ arg.url[1] # "/"
    /\ arg.url[2] = "/"
    /\ arg.url[3] = "/"
    /\ config.url = <<arg.url[1]>>


StartsWithSlash(s) == s # <<>> /\ s[1] = "/"

ApiPrefix == <<"/rest/api/", config.api_version, "/">>

Parsed == pc = "used" /\ tool = "parse_time_spent"

\* the input as the parser reads it, blanks around it removed
TrimmedInput == strip(arg.time_spent)

EndsInS(t) == t # <<>> /\ t[Len(t)] = "s"

UnitLetters == {"w", "d", "h", "m", "H"}

UnitSeconds(c) ==
    CASE c = "w" -> 604800
      [] c = "d" -> 86400
      [] c \in {"h", "H"} -> 3600
      [] c = "m" -> 60

\* the positions of the unit letters that stand right after a digit
Occurrences(t) == {j \in 2..Len(t) : t[j] \in UnitLetters /\ t[j - 1] \in Digits}

\* the number written by the digits that end at position k
RECURSIVE RunValue(_, _)
RunValue(t, k) ==
    IF k = 0 \/ t[k] \notin Digits THEN 0
    ELSE RunValue(t, k - 1) * 10 + DigitValue(t[k])

\* the sum of digits x unit over the occurrences up to position j
RECURSIVE OccurrenceSum(_, _)
OccurrenceSum(t, j) ==
    IF j < 2 THEN 0
    ELSE (IF j \in Occurrences(t) THEN RunValue(t, j - 1) * UnitSeconds(t[j]) ELSE 0)
             + OccurrenceSum(t, j - 1)

ScanCase ==
    /\ Parsed
    /\ TrimmedInput # <<>>
    /\ ~EndsInS(TrimmedInput)
    /\ Occurrences(TrimmedInput) # {}

RaisedValidationError == ~result.ok /\ result.exc.kind = "ValidationError"

\* C16 as stated: for a trimmed input that does not end in 's' and has at
\* least one <digits><unit> occurrence, parse_time_spent returns the sum of
\* digits x unit over all occurrences, whatever else the string holds.
C16_SumOfOccurrences ==
    ScanCase =>
        result = Ok([int |-> OccurrenceSum(TrimmedInput, Len(TrimmedInput))])

\* C16, amended: for such an input parse_time_spent returns the sum of
\* digits x unit over all occurrences when that sum is positive, and fails
\* with ValidationError when it is zero (every occurrence has the number 0).
C16_PositiveSumOfOccurrences ==
    ScanCase =>
        LET sum == OccurrenceSum(TrimmedInput, Len(TrimmedInput))
        IN IF sum > 0 THEN result = Ok([int |-> sum]) ELSE RaisedValidationError

\* two occurrences, one with an upper-case unit, add up
C16_Witness ==
    /\ Parsed
    /\ arg.time_spent = <<"1", "H", "1", "m">>
    /\ result = Ok([int |-> 3660])

\* C17: for a trimmed input that ends in 's' parse_time_spent returns the
\* integer value of the string without that 's' when it parses as an integer
\* and fails with ValidationError otherwise; neither the unit scan nor the
\* plain-number fallback is applied.
C17_SecondsBranch ==
    (Parsed /\ EndsInS(TrimmedInput)) =>
        LET seconds == py_int(SubSeq(TrimmedInput, 1, Len(TrimmedInput) - 1))
        IN IF seconds.ok
           THEN result = Ok([int |-> seconds.val])
           ELSE RaisedValidationError

\* '1hs' is rejected although the unit scan would find 1h in it
C17_Witness ==
    /\ Parsed
    /\ arg.time_spent = <<"1", "h", "s">>
    /\ Occurrences(TrimmedInput) # {}
    /\ RaisedValidationError

\* C18 as stated: for a trimmed input that does not end in 's' and has no
\* <digits><unit> occurrence, parse_time_spent returns the input read as a
\* plain number and truncated when that value is positive, and fails with
\* ValidationError in every other case.
C18_PlainNumber ==
    (/\ Parsed
     /\ TrimmedInput # <<>>
     /\ ~EndsInS(TrimmedInput)
     /\ Occurrences(TrimmedInput) = {}) =>
        LET f == py_float(TrimmedInput)
            truncated == IF f.val.neg THEN 0 - f.val.whole ELSE f.val.whole
        IN IF f.ok /\ ~f.val.inf /\ truncated > 0
           THEN result = Ok([int |-> truncated])
           ELSE RaisedValidationError

\* C19 as stated: for every string parse_time_spent returns an integer or
\* fails with ValidationError, never with another kind of error.
C19_OnlyValidationError ==
    Parsed => (result.ok \/ result.exc.kind = "ValidationError")


\* the errors _handle_error raises for a status code
HttpStatusErrors == {"AuthenticationError", "ValidationError", "NotFoundError", "APIError"}

\* get, post or put has run on a response whose status is below 400
AnsweredBelow400 ==
    /\ pc = "used"
    /\ tool \in {"get", "post", "put"}
    /\ arg.response.t # "transport"
    /\ arg.response.status_code < 400

\* C20: get, post and put return an empty mapping for a response below 400
\* with an empty body and the parsed JSON for one whose non-empty body is
\* JSON; no response below 400, 3xx included, raises an HTTP-status error.
C20_SuccessBelow400 ==
    AnsweredBelow400 =>
        /\ arg.response.text = "" => result = Ok(EmptyObj)
        /\ (arg.response.text # "" /\ arg.response.json # NotJson) =>
              result = Ok(arg.response.json)
        /\ result.ok \/ result.exc.kind \notin HttpStatusErrors

\* a 302 with an empty body gives the empty mapping
C20_Witness ==
    /\ AnsweredBelow400
    /\ arg.response.status_code = 302
    /\ arg.response.text = ""
    /\ result = Ok(EmptyObj)


\* get, post, put or delete has run on a response whose status is 400 or more
AnsweredError ==
    /\ pc = "used"
    /\ tool \in Methods
    /\ arg.response.t # "transport"
    /\ arg.response.status_code >= 400

\* the message a key of the JSON body yields, "" when it yields none
KeyMessage(resp, key) ==
    IF resp.json = NotJson THEN ""
    ELSE IF resp.json.t # "obj" THEN ""
    ELSE IF key \notin DOMAIN resp.json.f THEN ""
    ELSE LET v == resp.json.f[key]
         IN IF v.t = "str" THEN v.s
            ELSE IF v.t = "list" /\ v.items # <<>> /\ v.items[1].t = "str"
            THEN v.items[1].s
            ELSE ""

RawMessage(resp) == IF resp.text # "" THEN resp.text ELSE resp.reason

\* the first available of errorMessages[0], message, error, raw text / reason
FirstAvailableMessage(resp) ==
    IF resp.json # NotJson /\ resp.json.t = "obj"
           /\ "errorMessages" \in DOMAIN resp.json.f
           /\ resp.json.f["errorMessages"].t = "list"
           /\ KeyMessage(resp, "errorMessages") # ""
    THEN KeyMessage(resp, "errorMessages")
    ELSE IF KeyMessage(resp, "message") # "" THEN KeyMessage(resp, "message")
    ELSE IF KeyMessage(resp, "error") # "" THEN KeyMessage(resp, "error")
    ELSE RawMessage(resp)

\* C21 as stated: the message embedded in the error raised for a response
\* with status >= 400 is the first available of errorMessages[0], message,
\* error, and else the raw text (the reason phrase when the text is empty),
\* the last also when the body is JSON but none of the keys yields a message.
C21_FirstAvailableMessage ==
    AnsweredError =>
        /\ ~result.ok
        /\ result.exc.msg[Len(result.exc.msg)] = FirstAvailableMessage(arg.response)


\* C22: a transport-level failure of the underlying request (timeout,
\* connection failure, any other request exception) makes get, post, put and
\* delete fail with NetworkError, and every call issues exactly one HTTP
\* request: nothing is sent again after a failure.
C22_TransportFailureIsNetworkError ==
    (pc = "used" /\ tool \in Methods) =>
        /\ Len(calls) = 1
        /\ calls[1].method = tool
        /\ arg.response.t = "transport" =>
              (~result.ok /\ result.exc.kind = "NetworkError")

\* a put that timed out
C22_Witness ==
    /\ pc = "used"
    /\ tool = "put"
    /\ arg.response = Transport("Timeout")
    /\ Len(calls) = 1
    /\ result = Raise("NetworkError", <<"Request timed out">>)


\* jira_get_user_profile has returned a user, not an error envelope
JiraSucceeded ==
    /\ tool = JiraTool
    /\ pc = "done"
    /\ result.t = "returned"
    /\ ~IsEnvelope(Doc)

\* C23: every successful result of jira_get_user_profile has exactly the
\* seven keys account_id, display_name, email, active, account_type, timezone
\* and locale; a field absent from the vendor record becomes the empty
\* string (false for active), a field present is copied.
C23_SevenKeys ==
    JiraSucceeded =>
        /\ Doc.t = "obj"
        /\ DOMAIN Doc.f =
              {"account_id", "display_name", "email", "active", "account_type",
               "timezone", "locale"}
        /\ \A k \in DOMAIN Doc.f :
              Doc.f[k] = IF VendorKey(k) \in DOMAIN user_data.f
                         THEN user_data.f[VendorKey(k)]
                         ELSE IF k = "active" THEN JBool(FALSE) ELSE JStr("")

\* a vendor record with nothing but displayName
C23_Witness ==
    /\ JiraSucceeded
    /\ user_data = UserSparse
    /\ Doc.f["display_name"] = JStr("Test User")
    /\ Doc.f["account_id"] = JStr("")
    /\ Doc.f["active"] = JBool(FALSE)


Simplified == pc = "used" /\ tool = "simplify_issue" /\ result.ok

IssueKeys ==
    {"key", "id", "summary", "description", "status", "issue_type", "priority",
     "assignee", "reporter", "created", "updated", "labels", "components"}

\* the vendor issue has a field whose name starts with customfield_
HasCustomField ==
    /\ "fields" \in DOMAIN arg.issue_data.f
    /\ \E k \in DOMAIN arg.issue_data.f["fields"].f : k = "customfield_1"

AsAlone(f) ==
    f.pc = "done" =>
        LET alone == IF f.tool = JiraTool
                     THEN AloneJira(env, f.arg, f.log)
                     ELSE AloneConfluence(env, f.arg, f.log)
        IN /\ f.result = alone.result
           /\ f.calls = alone.calls

\* C25: two invocations of the tool functions share no mutable state: each
\* builds its own configuration and client, and under every interleaving
\* each returns the result it returns when it runs alone against the same
\* HTTP responses, the environment being left unmodified.
C25_InterleavingEqualsAlone ==
    AsAlone(Frame) /\ AsAlone(suspended)

\* confluence_search_users ran from start to end while
\* jira_get_user_profile was waiting for the answer of its picker
C25_Witness ==
    /\ tool = ConfluenceTool
    /\ pc = "done"
    /\ Len(log) = 1
    /\ suspended.tool = JiraTool
    /\ suspended.pc = "m3"
    /\ config # suspended.config


SkillsChecked == pc = "used" /\ tool = "check_available_skills"

ListedAvailable(service) ==
    \E i \in 1..Len(result.val.available_services) :
        result.val.available_services[i] = service

ListedUnavailable(service) == service \in DOMAIN result.val.unavailable_services

UrlGiven(c) == c.url.some /\ c.url.v # <<>>

AuthGiven(c) ==
    \/ c.pat_token.some /\ c.pat_token.v # ""
    \/ /\ c.username.some /\ c.username.v # ""
       /\ c.api_token.some /\ c.api_token.v # ""

\* C26: check_available_skills places each of jira, confluence and
\* bitbucket in exactly one of available_services and unavailable_services;
\* a service is available iff its URL is non-empty and its PAT, or both its
\* username and API token, are present; every unavailable service carries a
\* reason, which is 'Missing <service>_url' when the URL is absent.
C26_AvailableIff ==
    SkillsChecked =>
        \A service \in {"jira", "confluence", "bitbucket"} :
            LET c == arg.credentials[service]
            IN /\ ListedAvailable(service) # ListedUnavailable(service)
               /\ ListedAvailable(service) <=> (UrlGiven(c) /\ AuthGiven(c))
               /\ ListedUnavailable(service) =>
                     /\ result.val.unavailable_services[service] # <<>>
                     /\ ~UrlGiven(c) =>
                           result.val.unavailable_services[service]
                               = <<"Missing ", service, "_url">>

\* jira is available, confluence has a PAT but no URL, bitbucket a URL but no
\* authentication
C26_Witness ==
    /\ SkillsChecked
    /\ result.val.available_services = <<"jira">>
    /\ ~arg.credentials["confluence"].url.some
    /\ AuthGiven(arg.credentials["confluence"])
    /\ UrlGiven(arg.credentials["bitbucket"])
    /\ result.val.unavailable_services["confluence"] = <<"Missing ", "confluence", "_url">>
    /\ result.val.unavailable_services["bitbucket"]
          = <<"Missing ", "bitbucket", " authentication (need PAT or username+token)">>


\* C27: inside jira_get_user_profile only NotFoundError and APIError raised
\* by a lookup are passed over; an AuthenticationError, a ValidationError or
\* a NetworkError raised by the call of any strategy ends the invocation at
\* once with the envelope of that kind, and no later strategy is attempted.
C27_OnlyNotFoundAndApiSwallowed ==
    tool = JiraTool =>
        \A i \in 1..Len(log) :
            /\ (~log[i].ok /\ i < Len(log)) =>
                  log[i].exc.kind \in {"NotFoundError", "APIError"}
            /\ (~log[i].ok /\ log[i].exc.kind \in
                    {"AuthenticationError", "ValidationError", "NetworkError"}) =>
                  /\ i = Len(log)
                  /\ Len(calls) = i
                  /\ pc = "done"
                  /\ ReturnedError(log[i].exc.kind)

\* the direct lookup failed with 404 and the search with 403
C27_Witness ==
    /\ tool = JiraTool
    /\ pc = "done"
    /\ Len(log) = 2
    /\ Len(calls) = 2
    /\ ~log[1].ok
    /\ log[1].exc.kind = "NotFoundError"
    /\ ~log[2].ok
    /\ log[2].exc = Exc("AuthenticationError", <<"Access forbidden: ", "msg">>)
    /\ ReturnedError("AuthenticationError")


\* the picker answered without a usable candidate: no users, or a first
\* user without an accountId
PickerGaveNoCandidate(r) == r.ok /\ PickerNothing(r)

\* C28: in strategy 3, when the first candidate of the picker carries an
\* accountId, exactly one more direct lookup is made, with that accountId,
\* and the user it returns is the result; when the picker gives no
\* candidate, or a first candidate without accountId, no further call is
\* made and the invocation ends with NotFoundError.
C28_PickerFollowUp ==
    (tool = JiraTool /\ Len(log) >= 3) =>
        /\ PickerHasCandidate(log[3]) =>
              /\ Len(calls) = 4
              /\ calls[4] = Req("get", JiraUrl(4),
                                [accountId |-> PickerCandidateId(log[3])])
              /\ Len(log) = 4 =>
                    /\ pc = "done"
                    /\ (log[4].ok /\ IsMatch(log[4].val)) =>
                          result = Returned(format_json_response(
                                       jira_simplify_user(log[4].val).val))
        /\ PickerGaveNoCandidate(log[3]) =>
              /\ Len(calls) = 3
              /\ Len(log) = 3
              /\ pc = "done"
              /\ ReturnedError("NotFoundError")

\* the candidate of the picker was looked up and returned
C28_Witness ==
    /\ tool = JiraTool
    /\ pc = "done"
    /\ Len(log) = 4
    /\ PickerCandidateId(log[3]) = JStr(PickerId)
    /\ calls[4].params = [accountId |-> JStr(PickerId)]
    /\ log[4] = Ok(UserFull)
    /\ result.t = "returned"
    /\ Doc.f["account_id"] = JStr("accountId")


\* C29: URL normalization is idempotent: a config built from the URL that
\* another config stored stores that same URL again.
C29_NormalizationIdempotent ==
    pc = "reconstructed" => config.url = arg.url

\* the first config was given a URL with trailing slashes: the second one is
\* built from the stripped URL and keeps it
C29_Witness ==
    /\ pc = "reconstructed"
    /\ arg.first = <<"h", "/", "/">>
    /\ arg.url = <<"h">>
    /\ config.url = <<"h">>


\* C30 as stated: every value parse_time_spent returns is a strictly
\* positive number of seconds, on the seconds path, the unit sum and the
\* plain-number fallback alike.
C30_ReturnsPositive ==
    (Parsed /\ result.ok) => result.val.int > 0

====
